---- MODULE Spec2Model ----
(***************************************************************************)
(* Model of www/transwrap/db.py: the global engine, the thread-local       *)
(* _DbCtx with its _LasyConnection, the _ConnectionCtx and _TransactionCtx *)
(* context managers, and the statement helpers that run inside them.       *)
(*                                                                         *)
(* Every method is a pure operator from the thread-local context (and the  *)
(* outcomes of the driver calls it makes) to a result record               *)
(*    [ctx, exc, calls]                                                    *)
(* ctx   - the context after the call,                                     *)
(* exc   - the exception the call raises ("none": it returns),             *)
(* calls - the calls that reached the engine factory or the raw handle.    *)
(* The actions apply these operators to the state of one thread.           *)
(***************************************************************************)
EXTENDS Integers, Sequences, FiniteSets, TLC

VARIABLES
  engine,        \* the global `engine`: "None" or the factory it wraps
  create_call,   \* the last create_engine call: its factory and its outcome
  db_ctx,        \* per thread: the thread-local _db_ctx
  stack,         \* per thread: the context managers entered and not yet exited
  exc,           \* per thread: the exception now propagating ("none": none)
  last,          \* per thread: what the last operation of the thread did
  round,         \* per thread: tally of the raw calls since the outermost scope was entered
  opener,        \* per context: the thread whose cursor() opened its raw handle
  observed       \* the threads whose history (last, round) is kept

vars == <<engine, create_call, db_ctx, stack, exc, last, round, opener, observed>>

----------------------------------------------------------------------------
(* Bounds *)

\* deepest nesting of context managers in one thread
MaxDepth == 3
\* the counters of calls saturate at this value
MaxCount == 2
\* deepest nesting of context managers in a thread when every thread runs
MaxNest == 1
\* most columns in the first row a scalar read fetches (0: there is no row)
MaxCols == 2

Threads == {"t1", "t2"}
\* the thread whose operations Spec explores; the other one stays idle
MainThreads == {"t1"}
Factories == {"f1", "f2"}

\* faulty variant: _db_ctx is a plain object, one context shared by all threads
Local_Shared(t) == "t1"

\* _db_ctx is a threading.local: the context a thread's access to it reaches
Local(t) == t

\* _DbCtx._transactions after cleanup() is None, which is no number
NoneT == -1

Cap(n) == IF n > MaxCount THEN MaxCount ELSE n

Count(s, e) == Cardinality({i \in DOMAIN s : s[i] = e})

Ret(c, e, calls) == [ctx |-> c, exc |-> e, calls |-> calls]

\* the exception that leaves a block whose body raised b and whose exit raised x
Chain(b, x) == IF x # "none" THEN x ELSE b

----------------------------------------------------------------------------
(* _LasyConnection: ctx.handle is its _connection, ctx.connects counts the  *)
(* engine.connect() calls made for this object                             *)

LasyCursor(c, eng, connectOk) ==
  IF c.handle # "None" THEN Ret(c, "none", <<>>)
  ELSE IF eng = "None" THEN Ret(c, "AttributeError", <<>>)
  ELSE IF connectOk
    THEN Ret([c EXCEPT !.handle = "Handle", !.connects = Cap(@ + 1)],
             "none", <<"connect">>)
    ELSE Ret([c EXCEPT !.connects = Cap(@ + 1)], "ConnectError", <<"connect">>)

LasyCommit(c, commitOk) ==
  IF c.handle = "None" THEN Ret(c, "AttributeError", <<>>)
  ELSE Ret(c, IF commitOk THEN "none" ELSE "CommitError", <<"commit">>)

LasyRollback(c, rollbackOk) ==
  IF c.handle = "None" THEN Ret(c, "AttributeError", <<>>)
  ELSE Ret(c, IF rollbackOk THEN "none" ELSE "RollbackError", <<"rollback">>)

LasyCleanup(c) ==
  IF c.handle # "None"
    THEN Ret([c EXCEPT !.handle = "None"], "none", <<"close">>)
    ELSE Ret(c, "none", <<>>)

----------------------------------------------------------------------------
(* _DbCtx *)

InitialCtx ==
  [connection |-> "None", transactions |-> 0, handle |-> "None", connects |-> 0]

is_init(c) == c.connection # "None"

init(c) ==
  [connection |-> "Lazy", transactions |-> 0, handle |-> "None", connects |-> 0]

cleanup(c) ==
  IF c.connection = "None" THEN Ret(c, "AttributeError", <<>>)
  ELSE LET r == LasyCleanup(c)
       IN  Ret([r.ctx EXCEPT !.transactions = NoneT], r.exc, r.calls)

----------------------------------------------------------------------------
(* _ConnectionCtx *)

ConnectionEnter(c) ==
  IF ~is_init(c)
    THEN [ctx |-> init(c), should |-> TRUE]
    ELSE [ctx |-> c, should |-> FALSE]

\* faulty variant: a joined scope cleans up too
ConnectionExit_Always(c, should) == cleanup(c)

ConnectionExit(c, should) ==
  IF should THEN cleanup(c) ELSE Ret(c, "none", <<>>)

\* with _ConnectionCtx(): body -- e is what __enter__ returned and b the result
\* of the body run in e.ctx; the block ends with __exit__
WithConnection(e, b) ==
  LET x == ConnectionExit(b.ctx, e.should)
  IN  Ret(x.ctx, Chain(b.exc, x.exc), b.calls \o x.calls)

----------------------------------------------------------------------------
(* _TransactionCtx *)

\* faulty variant: a flag instead of a counter, joining does not count
TransactionEnter_Flag(c) ==
  LET e == ConnectionEnter(c)
  IN  IF e.ctx.transactions = NoneT
        THEN [ctx |-> e.ctx, should |-> e.should, exc |-> "TypeError"]
        ELSE [ctx |-> [e.ctx EXCEPT !.transactions = 1],
              should |-> e.should, exc |-> "none"]

TransactionEnter(c) ==
  LET e == ConnectionEnter(c)
  IN  IF e.ctx.transactions = NoneT
        THEN [ctx |-> e.ctx, should |-> e.should, exc |-> "TypeError"]
        ELSE [ctx |-> [e.ctx EXCEPT !.transactions = @ + 1],
              should |-> e.should, exc |-> "none"]

TransactionCommit(c, commitOk, rollbackOk) ==
  LET cm == LasyCommit(c, commitOk)
  IN  IF cm.exc = "none" THEN cm
      ELSE LET rb == LasyRollback(cm.ctx, rollbackOk)
           IN  Ret(rb.ctx, Chain(cm.exc, rb.exc), cm.calls \o rb.calls)

TransactionRollback(c, rollbackOk) == LasyRollback(c, rollbackOk)

\* faulty variant: every exit commits or rolls back, whatever the depth it leaves
TransactionExit_EveryExit(c, should, excIn, commitOk, rollbackOk) ==
  IF c.transactions = NoneT THEN Ret(c, "TypeError", <<>>)
  ELSE
    LET c1 == [c EXCEPT !.transactions = @ - 1]
        body == IF excIn = "none"
                  THEN TransactionCommit(c1, commitOk, rollbackOk)
                  ELSE TransactionRollback(c1, rollbackOk)
        fin == IF should THEN cleanup(body.ctx) ELSE Ret(body.ctx, "none", <<>>)
    IN  Ret(fin.ctx, Chain(body.exc, fin.exc), body.calls \o fin.calls)

\* faulty variant: an exit reached by an exception rolls back at any depth
TransactionExit_InnerRollback(c, should, excIn, commitOk, rollbackOk) ==
  IF c.transactions = NoneT THEN Ret(c, "TypeError", <<>>)
  ELSE
    LET c1 == [c EXCEPT !.transactions = @ - 1]
        body == IF excIn # "none" THEN TransactionRollback(c1, rollbackOk)
                ELSE IF c1.transactions = 0
                  THEN TransactionCommit(c1, commitOk, rollbackOk)
                  ELSE Ret(c1, "none", <<>>)
        fin == IF should THEN cleanup(body.ctx) ELSE Ret(body.ctx, "none", <<>>)
    IN  Ret(fin.ctx, Chain(body.exc, fin.exc), body.calls \o fin.calls)

\* faulty variant: no try/finally, so cleanup() is skipped when commit or rollback raises
TransactionExit_NoFinally(c, should, excIn, commitOk, rollbackOk) ==
  IF c.transactions = NoneT THEN Ret(c, "TypeError", <<>>)
  ELSE
    LET c1 == [c EXCEPT !.transactions = @ - 1]
        body == IF c1.transactions = 0
                  THEN IF excIn = "none"
                         THEN TransactionCommit(c1, commitOk, rollbackOk)
                         ELSE TransactionRollback(c1, rollbackOk)
                  ELSE Ret(c1, "none", <<>>)
        fin == IF should /\ body.exc = "none"
                 THEN cleanup(body.ctx) ELSE Ret(body.ctx, "none", <<>>)
    IN  Ret(fin.ctx, Chain(body.exc, fin.exc), body.calls \o fin.calls)

\* exc of the result: what __exit__ itself raises; "none" lets excIn propagate
TransactionExit(c, should, excIn, commitOk, rollbackOk) ==
  IF c.transactions = NoneT THEN Ret(c, "TypeError", <<>>)
  ELSE
    LET c1 == [c EXCEPT !.transactions = @ - 1]
        body == IF c1.transactions = 0
                  THEN IF excIn = "none"
                         THEN TransactionCommit(c1, commitOk, rollbackOk)
                         ELSE TransactionRollback(c1, rollbackOk)
                  ELSE Ret(c1, "none", <<>>)
        fin == IF should THEN cleanup(body.ctx) ELSE Ret(body.ctx, "none", <<>>)
    IN  Ret(fin.ctx, Chain(body.exc, fin.exc), body.calls \o fin.calls)

----------------------------------------------------------------------------
(* The statement helpers, each wrapped by @with_connection *)

\* the body of _select: cursor(), execute(), fetch
SelectBody(c, eng, connectOk, execOk) ==
  LET cur == LasyCursor(c, eng, connectOk)
  IN  IF cur.exc # "none" THEN cur
      ELSE Ret(cur.ctx, IF execOk THEN "none" ELSE "StatementError",
               cur.calls \o <<"execute">>)

\* select_one / select: @with_connection around _select
Select(c, eng, connectOk, execOk) ==
  LET e == ConnectionEnter(c)
  IN  WithConnection(e, SelectBody(e.ctx, eng, connectOk, execOk))

\* select_int: @with_connection around _select(sql, True) and the check of the
\* row's length. _select takes its cursor from _LasyConnection.cursor(), which
\* asks the raw connection for a plain cursor, so the row is a tuple: len() of
\* no row (None) raises TypeError, and .values() of a one-column row raises
\* AttributeError
SelectInt(c, eng, connectOk, execOk, cols) ==
  LET e == ConnectionEnter(c)
      d == SelectBody(e.ctx, eng, connectOk, execOk)
      body == IF d.exc # "none" THEN d
              ELSE IF cols = 0 THEN Ret(d.ctx, "TypeError", d.calls)
              ELSE IF cols # 1 THEN Ret(d.ctx, "MultiColumnsError", d.calls)
              ELSE Ret(d.ctx, "AttributeError", d.calls)
  IN  WithConnection(e, body)

\* faulty variant: the write commits whatever _transactions is
UpdateBody_AlwaysCommit(c, eng, connectOk, execOk, commitOk) ==
  LET cur == LasyCursor(c, eng, connectOk)
  IN  IF cur.exc # "none" THEN cur
      ELSE IF ~execOk
        THEN Ret(cur.ctx, "StatementError", cur.calls \o <<"execute">>)
      ELSE LET cm == LasyCommit(cur.ctx, commitOk)
           IN  Ret(cm.ctx, cm.exc, cur.calls \o <<"execute">> \o cm.calls)

\* the body of _update: cursor(), execute(), commit() when _transactions == 0
UpdateBody(c, eng, connectOk, execOk, commitOk) ==
  LET cur == LasyCursor(c, eng, connectOk)
  IN  IF cur.exc # "none" THEN cur
      ELSE IF ~execOk
        THEN Ret(cur.ctx, "StatementError", cur.calls \o <<"execute">>)
      ELSE IF cur.ctx.transactions = 0
        THEN LET cm == LasyCommit(cur.ctx, commitOk)
             IN  Ret(cm.ctx, cm.exc, cur.calls \o <<"execute">> \o cm.calls)
      ELSE Ret(cur.ctx, "none", cur.calls \o <<"execute">>)

\* update: @with_connection around the @with_connection _update
Update(c, eng, connectOk, execOk, commitOk) ==
  LET outer == ConnectionEnter(c)
      inner == ConnectionEnter(outer.ctx)
  IN  WithConnection(outer,
        WithConnection(inner,
          UpdateBody(inner.ctx, eng, connectOk, execOk, commitOk)))

\* insert: the name `clos` is undefined, so the body raises before _update
Insert(c) ==
  LET e == ConnectionEnter(c)
  IN  WithConnection(e, Ret(e.ctx, "NameError", <<>>))

----------------------------------------------------------------------------
(* create_engine *)

\* faulty variant: no check of the global, a later call replaces the engine
create_engine_Overwrite(eng, f) == [engine |-> f, exc |-> "none"]

create_engine(eng, f) ==
  IF eng # "None"
    THEN [engine |-> eng, exc |-> "DBError"]
    ELSE [engine |-> f, exc |-> "none"]

----------------------------------------------------------------------------
(* History kept for the properties *)

NoOp ==
  [op |-> "none", should |-> FALSE, excIn |-> "none", excOut |-> "none",
   calls |-> <<>>, txBefore |-> 0, handleBefore |-> "None", depth |-> 0,
   cols |-> 0, openerBefore |-> "none"]

\* what thread t did last: the operation, the scope's _should_cleanup /
\* _should_close_conn, the exception it was entered with and the one that left
\* it, the raw calls it made, _transactions and the raw handle before it, the
\* number of scopes open when it began, for a scalar read the number of
\* columns of the row it found, and the thread that had opened the raw handle
\* the operation found; nothing is kept for a thread that is not observed
Did(t, op, should, excOut, calls) ==
  IF t \notin observed THEN NoOp
  ELSE
  [op |-> op, should |-> should, excIn |-> exc[t], excOut |-> excOut,
   calls |-> calls, txBefore |-> db_ctx[Local(t)].transactions,
   handleBefore |-> db_ctx[Local(t)].handle, depth |-> Len(stack[t]), cols |-> 0,
   openerBefore |-> opener[Local(t)]]

\* the opener of the raw handle of thread t's context once an operation of t
\* has left the context as c
Opener(t, c) ==
  [opener EXCEPT ![Local(t)] =
     IF c.handle = "None" THEN "none"
     ELSE IF db_ctx[Local(t)].handle = "None" THEN t
     ELSE @]

ZeroRound ==
  [commits |-> 0, rollbacks |-> 0, closes |-> 0, txOuter |-> 0, txInner |-> 0,
   wrote |-> FALSE, spoiled |-> FALSE, innerFailed |-> FALSE]

\* a round in which an operation raised, or a write ran outside every
\* transaction scope, is not tallied any further; it still remembers whether
\* an exception has left a transaction scope nested in another (innerFailed)
SpoiledRound == [ZeroRound EXCEPT !.spoiled = TRUE]

TxFrames(s) == Count([i \in DOMAIN s |-> s[i].kind], "tx")

\* the round's tally after an operation of thread t; a round starts when the
\* thread enters a scope with none open. txOuter counts the transaction exits
\* that found _transactions = 1, txInner those that found it greater
Tally(t, op, excOut, calls) ==
  LET r == IF stack[t] = <<>> THEN ZeroRound ELSE round[t]
      wrote == op = "update" /\ excOut \in {"none", "CommitError"}
      inner == \/ r.innerFailed
               \/ op = "exitTx" /\ db_ctx[Local(t)].transactions > 1 /\ exc[t] # "none"
  IN  IF t \notin observed THEN ZeroRound
      ELSE IF r.spoiled \/ excOut # "none" \/ (wrote /\ TxFrames(stack[t]) = 0)
        THEN [SpoiledRound EXCEPT !.innerFailed = inner]
        ELSE [commits   |-> Cap(r.commits + Count(calls, "commit")),
              rollbacks |-> Cap(r.rollbacks + Count(calls, "rollback")),
              closes    |-> Cap(r.closes + Count(calls, "close")),
              txOuter   |-> Cap(r.txOuter +
                                IF op = "exitTx" /\ db_ctx[Local(t)].transactions = 1
                                  THEN 1 ELSE 0),
              txInner   |-> Cap(r.txInner +
                                IF op = "exitTx" /\ db_ctx[Local(t)].transactions > 1
                                  THEN 1 ELSE 0),
              wrote     |-> r.wrote \/ wrote,
              spoiled   |-> FALSE,
              innerFailed |-> inner]

Top(s) == s[Len(s)]
Pop(s) == SubSeq(s, 1, Len(s) - 1)

----------------------------------------------------------------------------
(* Actions *)

Init ==
  /\ engine = "None"
  /\ create_call = [arg |-> "None", exc |-> "none"]
  /\ db_ctx = [t \in Threads |-> InitialCtx]
  /\ stack = [t \in Threads |-> <<>>]
  /\ exc = [t \in Threads |-> "none"]
  /\ last = [t \in Threads |-> NoOp]
  /\ round = [t \in Threads |-> ZeroRound]
  /\ opener = [t \in Threads |-> "none"]
  /\ observed = MainThreads

CreateEngine ==
  \E f \in Factories :
    LET r == create_engine(engine, f)
    IN  /\ engine' = r.engine
        /\ create_call' = [arg |-> f, exc |-> r.exc]
        /\ UNCHANGED <<db_ctx, stack, exc, last, round, opener, observed>>

\* with connection():
EnterConnection(t) ==
  /\ exc[t] = "none"
  /\ Len(stack[t]) < MaxDepth
  /\ LET e == ConnectionEnter(db_ctx[Local(t)])
     IN  /\ db_ctx' = [db_ctx EXCEPT ![Local(t)] = e.ctx]
         /\ opener' = Opener(t, e.ctx)
         /\ stack' = [stack EXCEPT
                        ![t] = Append(@, [kind |-> "conn", should |-> e.should])]
         /\ last' = [last EXCEPT ![t] = Did(t, "enterConn", e.should, "none", <<>>)]
         /\ round' = [round EXCEPT ![t] = Tally(t, "enterConn", "none", <<>>)]
  /\ UNCHANGED <<observed, engine, create_call, exc>>

\* with transaction(): when __enter__ raises, the scope is not entered
EnterTransaction(t) ==
  /\ exc[t] = "none"
  /\ Len(stack[t]) < MaxDepth
  /\ LET e == TransactionEnter(db_ctx[Local(t)])
     IN  /\ db_ctx' = [db_ctx EXCEPT ![Local(t)] = e.ctx]
         /\ opener' = Opener(t, e.ctx)
         /\ stack' = [stack EXCEPT
                        ![t] = IF e.exc = "none"
                                 THEN Append(@, [kind |-> "tx", should |-> e.should])
                                 ELSE @]
         /\ exc' = [exc EXCEPT ![t] = e.exc]
         /\ last' = [last EXCEPT ![t] = Did(t, "enterTx", e.should, e.exc, <<>>)]
         /\ round' = [round EXCEPT ![t] = Tally(t, "enterTx", e.exc, <<>>)]
  /\ UNCHANGED <<observed, engine, create_call>>

\* the end of a with connection() block, reached normally or by an exception
ExitConnection(t) ==
  /\ stack[t] # <<>>
  /\ Top(stack[t]).kind = "conn"
  /\ LET r == ConnectionExit(db_ctx[Local(t)], Top(stack[t]).should)
         out == Chain(exc[t], r.exc)
     IN  /\ db_ctx' = [db_ctx EXCEPT ![Local(t)] = r.ctx]
         /\ opener' = Opener(t, r.ctx)
         /\ stack' = [stack EXCEPT ![t] = Pop(@)]
         /\ exc' = [exc EXCEPT ![t] = out]
         /\ last' = [last EXCEPT
                       ![t] = Did(t, "exitConn", Top(stack[t]).should, out, r.calls)]
         /\ round' = [round EXCEPT ![t] = Tally(t, "exitConn", out, r.calls)]
  /\ UNCHANGED <<observed, engine, create_call>>

\* the end of a with transaction() block, reached normally or by an exception
ExitTransaction(t) ==
  /\ stack[t] # <<>>
  /\ Top(stack[t]).kind = "tx"
  /\ \E commitOk, rollbackOk \in BOOLEAN :
       LET r == TransactionExit(db_ctx[Local(t)], Top(stack[t]).should, exc[t],
                                commitOk, rollbackOk)
           out == Chain(exc[t], r.exc)
       IN  /\ db_ctx' = [db_ctx EXCEPT ![Local(t)] = r.ctx]
           /\ opener' = Opener(t, r.ctx)
           /\ stack' = [stack EXCEPT ![t] = Pop(@)]
           /\ exc' = [exc EXCEPT ![t] = out]
           /\ last' = [last EXCEPT
                         ![t] = Did(t, "exitTx", Top(stack[t]).should, out, r.calls)]
           /\ round' = [round EXCEPT ![t] = Tally(t, "exitTx", out, r.calls)]
  /\ UNCHANGED <<observed, engine, create_call>>

\* a statement helper called by the thread, inside a scope or outside any
Statement(t, op, r) ==
  /\ db_ctx' = [db_ctx EXCEPT ![Local(t)] = r.ctx]
  /\ opener' = Opener(t, r.ctx)
  /\ exc' = [exc EXCEPT ![t] = r.exc]
  /\ last' = [last EXCEPT ![t] = Did(t, op, ~is_init(db_ctx[Local(t)]), r.exc, r.calls)]
  /\ round' = [round EXCEPT ![t] = Tally(t, op, r.exc, r.calls)]
  /\ UNCHANGED <<observed, engine, create_call, stack>>

CallUpdate(t) ==
  /\ exc[t] = "none"
  /\ \E connectOk, execOk, commitOk \in BOOLEAN :
       Statement(t, "update", Update(db_ctx[Local(t)], engine, connectOk, execOk, commitOk))

CallSelect(t) ==
  /\ exc[t] = "none"
  /\ \E connectOk, execOk \in BOOLEAN :
       Statement(t, "select", Select(db_ctx[Local(t)], engine, connectOk, execOk))

CallSelectInt(t) ==
  /\ exc[t] = "none"
  /\ \E connectOk, execOk \in BOOLEAN, cols \in 0..MaxCols :
       LET r == SelectInt(db_ctx[Local(t)], engine, connectOk, execOk, cols)
       IN  /\ db_ctx' = [db_ctx EXCEPT ![Local(t)] = r.ctx]
           /\ opener' = Opener(t, r.ctx)
           /\ exc' = [exc EXCEPT ![t] = r.exc]
           /\ last' = [last EXCEPT
                         ![t] = [Did(t, "select_int", ~is_init(db_ctx[Local(t)]),
                                     r.exc, r.calls)
                                 EXCEPT !.cols = IF t \in observed THEN cols ELSE 0]]
           /\ round' = [round EXCEPT ![t] = Tally(t, "select_int", r.exc, r.calls)]
           /\ UNCHANGED <<observed, engine, create_call, stack>>

CallInsert(t) ==
  /\ exc[t] = "none"
  /\ Statement(t, "insert", Insert(db_ctx[Local(t)]))

\* the work enclosed by a scope raises
Fail(t) ==
  /\ exc[t] = "none"
  /\ stack[t] # <<>>
  /\ exc' = [exc EXCEPT ![t] = "WorkError"]
  /\ last' = [last EXCEPT ![t] = Did(t, "fail", FALSE, "WorkError", <<>>)]
  /\ round' = [round EXCEPT ![t] = Tally(t, "fail", "WorkError", <<>>)]
  /\ UNCHANGED <<observed, engine, create_call, db_ctx, stack, opener>>

\* the code around the innermost open scope (the caller, when none is open)
\* catches the propagating exception
Catch(t) ==
  /\ exc[t] # "none"
  /\ exc' = [exc EXCEPT ![t] = "none"]
  /\ UNCHANGED <<observed, engine, create_call, db_ctx, stack, last, round, opener>>

Step(t) ==
  \/ EnterConnection(t)
  \/ EnterTransaction(t)
  \/ ExitConnection(t)
  \/ ExitTransaction(t)
  \/ CallUpdate(t)
  \/ CallSelect(t)
  \/ CallSelectInt(t)
  \/ CallInsert(t)
  \/ Fail(t)
  \/ Catch(t)

Next ==
  \/ CreateEngine
  \/ \E t \in MainThreads : Step(t)

Spec == Init /\ [][Next]_vars

\* every thread runs, interleaved in any order, each nesting at most MaxNest
\* scopes
StepThreads(t) ==
  \/ Len(stack[t]) < MaxNest /\ EnterConnection(t)
  \/ Len(stack[t]) < MaxNest /\ EnterTransaction(t)
  \/ ExitConnection(t)
  \/ ExitTransaction(t)
  \/ CallUpdate(t)
  \/ CallSelect(t)
  \/ CallSelectInt(t)
  \/ CallInsert(t)
  \/ Fail(t)
  \/ Catch(t)

\* the engine was created at startup, before any thread uses the module; no
\* thread's history is kept
InitThreads ==
  /\ engine \in Factories
  /\ create_call = [arg |-> engine, exc |-> "none"]
  /\ db_ctx = [t \in Threads |-> InitialCtx]
  /\ stack = [t \in Threads |-> <<>>]
  /\ exc = [t \in Threads |-> "none"]
  /\ last = [t \in Threads |-> NoOp]
  /\ round = [t \in Threads |-> ZeroRound]
  /\ opener = [t \in Threads |-> "none"]
  /\ observed = {}

NextThreads == \E t \in Threads : StepThreads(t)

SpecThreads == InitThreads /\ [][NextThreads]_vars

----------------------------------------------------------------------------
(* Properties *)

Exits == {"exitConn", "exitTx"}
Helpers == {"update", "select", "select_int", "insert"}

\* the commit and rollback calls among the raw calls of an operation
TxCalls(calls) == SelectSeq(calls, LAMBDA e : e \in {"commit", "rollback"})

\* the outermost transaction exit: the one that moves _transactions from 1 to 0
OutermostTxExit(l) == l.op = "exitTx" /\ l.txBefore = 1

\* C1 as stated: the exit that moves _transactions from 1 to 0 makes exactly
\* one commit-or-rollback call on the raw connection; an exit that leaves the
\* depth above 0, and a statement run inside a transaction scope, make none.
C1_Original ==
  \A t \in Threads :
    LET l == last[t]
    IN  /\ OutermostTxExit(l) => Len(TxCalls(l.calls)) = 1
        /\ l.op = "exitTx" /\ l.txBefore # 1 => TxCalls(l.calls) = <<>>
        /\ l.op \in Helpers /\ TxFrames(stack[t]) > 0 => TxCalls(l.calls) = <<>>

\* C1 as amended: commit and rollback reach the raw connection from a
\* transaction scope only at the exit that moves _transactions from 1 to 0.
\* With the raw handle open, that exit makes exactly one deciding call (commit
\* when the work succeeded, rollback when it raised), followed by one rollback
\* exactly when the deciding call was a commit that failed; with no raw handle
\* open it makes none. Exits that leave the depth above 0 and statements run
\* inside a transaction scope make none.
C1_OutermostExitDecides ==
  \A t \in Threads :
    LET l == last[t]
        tx == TxCalls(l.calls)
    IN  /\ OutermostTxExit(l) /\ l.handleBefore = "Handle" =>
             /\ l.excIn = "none" =>
                  \/ tx = <<"commit">> /\ l.excOut = "none"
                  \/ tx = <<"commit", "rollback">>
                       /\ l.excOut \in {"CommitError", "RollbackError"}
             /\ l.excIn # "none" => tx = <<"rollback">>
        /\ OutermostTxExit(l) /\ l.handleBefore = "None" => tx = <<>>
        /\ l.op = "exitTx" /\ l.txBefore # 1 => tx = <<>>
        /\ l.op \in Helpers /\ TxFrames(stack[t]) > 0 => tx = <<>>

\* C1 witness: the outermost exit of nested transaction scopes, after an inner
\* exit and a write, makes the round's only commit.
C1_Witness ==
  \E t \in Threads :
    /\ OutermostTxExit(last[t])
    /\ last[t].calls = <<"commit">>
    /\ round[t].txInner = 1 /\ round[t].wrote
    /\ round[t].commits = 1 /\ round[t].rollbacks = 0

\* C2 as stated: when the work of an outermost transaction scope raised, the
\* exit calls rollback on the raw connection, never commit, and the exception
\* that leaves the scope is the one the work raised.
C2_Original ==
  \A t \in Threads :
    LET l == last[t]
    IN  OutermostTxExit(l) /\ l.excIn # "none" =>
          /\ TxCalls(l.calls) = <<"rollback">>
          /\ l.excOut = l.excIn

\* C3 as stated: when commit() fails at the outermost exit, rollback is called
\* on the raw connection next and the exception that leaves the scope is the
\* commit failure, whether the rollback succeeds or fails.
C3_Original ==
  \A t \in Threads :
    LET l == last[t]
    IN  OutermostTxExit(l) /\ l.excIn = "none" /\ l.excOut # "none"
          /\ TxCalls(l.calls) # <<>> /\ Head(TxCalls(l.calls)) = "commit" =>
          /\ TxCalls(l.calls) = <<"commit", "rollback">>
          /\ l.excOut = "CommitError"

\* the statement of an update() call executed
Executed(l) == l.op = "update" /\ l.excOut \in {"none", "CommitError"}

\* C4 as stated: a write executed with no transaction scope open is committed
\* right after its statement; a write executed inside a transaction scope
\* makes no commit.
C4_Original ==
  \A t \in Threads :
    LET l == last[t]
    IN  Executed(l) =>
          IF TxFrames(stack[t]) = 0
            THEN \E i \in 1..(Len(l.calls) - 1) :
                   l.calls[i] = "execute" /\ l.calls[i + 1] = "commit"
            ELSE TxCalls(l.calls) = <<>>

\* C5: a scope, or a statement helper's own scope, that initialised the
\* context runs cleanup() on every way out (work succeeded or raised, commit
\* failed, rollback failed): after it no raw handle is open, and a handle that
\* was open or was opened inside it has received close().
C5_CleanupOnEveryExit ==
  \A t \in Threads :
    LET l == last[t]
    IN  l.op \in Exits \cup Helpers /\ l.should =>
          /\ db_ctx[t].handle = "None"
          /\ db_ctx[t].transactions = NoneT
          /\ l.handleBefore = "Handle" => Count(l.calls, "close") = 1
          /\ Count(l.calls, "execute") > 0 => Count(l.calls, "close") = 1

\* C5 witness: the exit of a transaction scope that initialised the context,
\* where commit failed and the rollback after it failed too, has closed the
\* raw handle.
C5_Witness ==
  \E t \in Threads :
    /\ last[t].op = "exitTx" /\ last[t].should
    /\ last[t].excOut = "RollbackError"
    /\ last[t].calls = <<"commit", "rollback", "close">>
    /\ db_ctx[t].handle = "None"

\* C6: the exit of a joined scope (entered with the context already
\* initialised) closes nothing and leaves the raw handle as it was; a raw
\* handle is closed only by the exit of the outermost scope, the one that
\* called init().
C6_JoinedScopeKeepsHandle ==
  \A t \in Threads :
    LET l == last[t]
    IN  /\ l.op \in Exits /\ ~l.should =>
             /\ Count(l.calls, "close") = 0
             /\ db_ctx[t].handle = l.handleBefore
        /\ Count(l.calls, "close") > 0 => l.should /\ stack[t] = <<>>
        /\ l.handleBefore = "Handle" /\ db_ctx[t].handle = "None" =>
             l.op \in Exits /\ l.should /\ stack[t] = <<>>

\* C6 witness: a joined connection scope, nested inside two others, has exited
\* with the raw handle open before and after.
C6_Witness ==
  \E t \in Threads :
    /\ last[t].op = "exitConn" /\ ~last[t].should
    /\ last[t].depth = 3
    /\ last[t].handleBefore = "Handle" /\ db_ctx[t].handle = "Handle"

\* C7: when an outermost connection scope has exited after one outermost
\* transaction scope inside it, with a write inside the transaction and
\* nothing raised, the raw handle received exactly one commit, no rollback and
\* exactly one close(), and the close() was made by the exit of the
\* connection scope (so after the commit, and by no transaction exit).
C7_CommitOnceThenCloseOnce ==
  \A t \in Threads :
    LET l == last[t]
        r == round[t]
    IN  l.op = "exitConn" /\ stack[t] = <<>> /\ ~r.spoiled
          /\ r.txOuter = 1 /\ r.wrote =>
          /\ r.commits = 1
          /\ r.rollbacks = 0
          /\ r.closes = 1
          /\ l.calls = <<"close">>

\* C7 witness: connection scope A, transaction scopes B and C nested in it, a
\* write, then C, B and A have exited.
C7_Witness ==
  \E t \in Threads :
    /\ last[t].op = "exitConn" /\ stack[t] = <<>> /\ last[t].should
    /\ ~round[t].spoiled /\ round[t].wrote
    /\ round[t].txOuter = 1 /\ round[t].txInner = 1
    /\ round[t].commits = 1 /\ round[t].closes = 1

\* C8 as stated: engine.connect() is called at most once for one
\* _LasyConnection object.
C8_Original ==
  \A t \in Threads : db_ctx[t].connects <= 1

\* C9 as stated: when the factory fails on the first cursor request inside a
\* scope, it was called once, the _LasyConnection stays unopened, and every
\* enclosing connection or transaction scope passes that failure on to its
\* caller.
C9_Original ==
  \A t \in Threads :
    LET l == last[t]
    IN  /\ l.op \in Helpers /\ l.excOut = "ConnectError" =>
             /\ Count(l.calls, "connect") = 1
             /\ db_ctx[t].handle = "None"
        /\ l.op \in Exits /\ l.excIn = "ConnectError" /\ l.handleBefore = "None" =>
             l.excOut = "ConnectError"

\* C10: once create_engine has succeeded, the global engine never changes
\* again and every later create_engine call raises DBError.
C10_EngineCreatedOnce ==
  [][engine # "None" =>
       /\ engine' = engine
       /\ create_call' # create_call => create_call'.exc = "DBError"]_vars

\* C10 witness: the engine wraps f1 and a later create_engine call with f2
\* has raised DBError.
C10_Witness ==
  /\ engine = "f1"
  /\ create_call = [arg |-> "f2", exc |-> "DBError"]

\* C11: threads are isolated. Every step is an operation of one thread u that
\* leaves the context of every other thread as it was (its _LasyConnection,
\* its raw handle and its _transactions), and the raw handle the operation
\* reaches, before it and after it, is not open or was opened by u itself: no
\* thread uses, commits, rolls back or closes a handle another thread opened.
C11_ThreadsIsolated ==
  [][\E u \in Threads :
       /\ StepThreads(u)
       /\ opener[Local(u)] \in {"none", u}
       /\ opener'[Local(u)] \in {"none", u}
       /\ \A t \in Threads \ {u} :
            db_ctx'[t] = db_ctx[t] /\ opener'[t] = opener[t]]_vars

\* C11 witness: two threads are each inside a scope of their own, each with
\* the raw handle it opened itself, one at _transactions = 1 and the other
\* at _transactions = 0.
C11_Witness ==
  /\ stack["t1"] # <<>> /\ stack["t2"] # <<>>
  /\ db_ctx["t1"].handle = "Handle" /\ opener["t1"] = "t1"
  /\ db_ctx["t2"].handle = "Handle" /\ opener["t2"] = "t2"
  /\ db_ctx["t1"].transactions = 1
  /\ db_ctx["t2"].transactions = 0

\* a scalar read whose statement ran and whose first row was fetched
Fetched(l) ==
  l.op = "select_int" /\ Count(l.calls, "execute") = 1 /\ l.excOut # "StatementError"

\* C12 as stated: a scalar read whose first row has two columns raises
\* MultiColumnsError, makes no commit and no rollback, and leaves
\* _transactions as it found it.
C12_Original ==
  \A t \in Threads :
    LET l == last[t]
    IN  Fetched(l) /\ l.cols = 2 =>
          /\ l.excOut = "MultiColumnsError"
          /\ TxCalls(l.calls) = <<>>
          /\ db_ctx[t].transactions = l.txBefore

\* a scope, or a statement helper's own scope, that called init() has ended,
\* so _DbCtx.cleanup() has just run
CleanedUp(l) == l.op \in Exits \cup Helpers /\ l.should

\* C13 as stated: cleanup() clears both fields of the context, so is_init()
\* is false right after every cleanup().
C13_Original ==
  \A t \in Threads :
    CleanedUp(last[t]) =>
      /\ db_ctx[t].transactions = NoneT
      /\ ~is_init(db_ctx[t])

\* C14 as stated: in every state of a thread's context, _transactions is
\* defined and not negative exactly when the connection field is present.
C14_Original ==
  \A t \in Threads :
    (db_ctx[t].transactions # NoneT /\ db_ctx[t].transactions >= 0)
      <=> is_init(db_ctx[t])

\* C15 as stated: with well-nested scopes, commit() and rollback() are only
\* invoked on a _LasyConnection whose raw handle is open (the outermost
\* transaction exit invokes one of them), and a transaction scope whose work
\* requested no cursor and raised nothing exits without error.
C15_Original ==
  \A t \in Threads :
    LET l == last[t]
    IN  /\ OutermostTxExit(l) => l.handleBefore = "Handle"
        /\ l.op = "exitTx" /\ l.excIn = "none" /\ l.handleBefore = "None" =>
             l.excOut = "none"

\* C16: a transaction enter raises _transactions by exactly 1, a transaction
\* exit lowers it by exactly 1 (the exit of the scope that called init() then
\* ends in cleanup()), the enter and exit of a joined connection scope leave
\* it alone; so inside an outermost scope that called init(), _transactions
\* is the number of transaction scopes open in the thread, never negative.
C16_DepthCountsOpenTransactions ==
  \A t \in Threads :
    LET l == last[t]
        c == db_ctx[t]
    IN  /\ stack[t] # <<>> /\ stack[t][1].should =>
             c.transactions = TxFrames(stack[t])
        /\ l.op = "enterTx" /\ l.excOut = "none" =>
             c.transactions = (IF l.should THEN 0 ELSE l.txBefore) + 1
        /\ l.op = "exitTx" /\ ~l.should => c.transactions = l.txBefore - 1
        /\ l.op = "exitTx" /\ l.should => l.txBefore = 1 /\ c.transactions = NoneT
        /\ l.op \in {"enterConn", "exitConn"} /\ ~l.should =>
             c.transactions = l.txBefore

\* C16 witness: inside a connection scope that called init(), two nested
\* transaction scopes are open and _transactions is 2.
C16_Witness ==
  \E t \in Threads :
    /\ Len(stack[t]) = 3 /\ stack[t][1].should
    /\ TxFrames(stack[t]) = 2
    /\ db_ctx[t].transactions = 2

\* C17 as stated: a transaction scope entered with no scope open, also after
\* an earlier outermost scope of the thread has exited, is entered without
\* error, initialises the context again and starts at _transactions = 1.
C17_Original ==
  \A t \in Threads :
    LET l == last[t]
    IN  l.op = "enterTx" /\ l.depth = 0 =>
          /\ l.excOut = "none"
          /\ l.should
          /\ db_ctx[t].transactions = 1

\* C18 as stated: a thread with no scope open holds no open raw handle.
C18_Original ==
  \A t \in Threads : stack[t] = <<>> => db_ctx[t].handle = "None"

\* C19: the exit of a transaction scope nested in another makes no rollback
\* and passes an exception on as it is, also when it is reached by one; the
\* outermost exit, with the raw handle open, commits when no exception
\* reaches it and rolls back when one does, whether or not an exception left
\* an inner transaction scope earlier and was caught.
C19_OnlyOutermostFailureRollsBack ==
  \A t \in Threads :
    LET l == last[t]
        tx == TxCalls(l.calls)
    IN  /\ l.op = "exitTx" /\ l.txBefore > 1 =>
             tx = <<>> /\ l.excOut = l.excIn
        /\ OutermostTxExit(l) /\ l.handleBefore = "Handle" /\ l.excIn = "none" =>
             tx # <<>> /\ Head(tx) = "commit"
        /\ OutermostTxExit(l) /\ l.handleBefore = "Handle" /\ l.excIn # "none" =>
             tx = <<"rollback">>

\* C19 witness: an exception left an inner transaction scope and was caught,
\* and the outermost exit then made a commit and no rollback.
C19_Witness ==
  \E t \in Threads :
    /\ round[t].innerFailed
    /\ OutermostTxExit(last[t])
    /\ last[t].excIn = "none" /\ last[t].excOut = "none"
    /\ TxCalls(last[t].calls) = <<"commit">>

====
